---- MODULE Spec2Model ----
(***************************************************************************)
(* Startup and shutdown handlers of the GNS3 server                        *)
(* (gns3server/core/tasks.py), run as coroutines on one asyncio event      *)
(* loop, together with the singleton reset of the test fixtures            *)
(* (tests/conftest.py).                                                    *)
(*                                                                         *)
(* A coroutine runs without interruption between two awaits: `cur` names   *)
(* the coroutine that holds the loop's thread, and every other step waits  *)
(* for cur = "none".  The collaborators that are not part of these files   *)
(* (the database tasks, Controller, HTTPClient, the module classes and     *)
(* PortManager) are external calls: an awaited call suspends the caller    *)
(* and later returns or raises.                                            *)
(***************************************************************************)
EXTENDS Integers, Sequences, FiniteSets, TLC

\* ------------------------------------------------------------- bounds
NumModules == 2      \* length of MODULES
MaxPort == 1         \* ports 1..MaxPort per protocol
MaxComputes == 1     \* compute records the database may hold
MaxResets == 1       \* runs of the test fixtures' singleton reset

\* ------------------------------------------------------------- constants of the program
MODULES == [i \in 1..NumModules |-> i]
Qemu == NumModules
Kinds == {MODULES[i] : i \in 1..NumModules}
Protos == {"tcp", "udp"}
Ports == 1..MaxPort
Platforms == {"win10", "linuxdebian"}

\* sys.platform.startswith("win")
StartsWithWin(p) == p \in {"win10"}

VARIABLES
  platform,      \* sys.platform
  pendingTicks,  \* wakeup callbacks scheduled with loop.call_later
  cur,           \* the coroutine holding the thread, or "none"
  dbComputes,    \* the compute records of the database
  spc,           \* start_app: where it is
  sIdx,          \* start_app: index of the module loop
  computes,      \* start_app: the local variable computes
  startErr,      \* start_app: the call whose exception ended it
  ctrlState,     \* Controller: NotStarted, Running, Stopped
  ctrlComputes,  \* Controller: the computes it was started with
  startArg,      \* Controller.start: the argument of the call
  bg,            \* the task made by ensure_future(Qemu.instance().list_images())
  bgSelf,        \* the Qemu object list_images is bound to
  pmInst,        \* PortManager._instance (0: None)
  pmCount,       \* PortManager objects created
  modInst,       \* module._instance per module class (0: None)
  modCount,      \* objects created per module class
  modPM,         \* module object -> its port_manager attribute (0: not set)
  unloadCalled,  \* module objects whose unload() was called
  alloc,         \* held ports: records [pm, proto, port, owner]
  hpc,           \* shutdown_handler: where it is
  hIdx,          \* shutdown_handler: index of the module loop
  hErr,          \* shutdown_handler: the call whose exception ended it
  hM,            \* shutdown_handler: the local variable m
  warned,        \* protocols for which log.warning was called
  inspected,     \* PortManager object whose sets were tested (0: none)
  dirty,         \* module objects whose unload() left a port held or raised
  drained,       \* the PortManager objects of which calls of unload() released ports
  resets,        \* resets run
  midReset,      \* a reset ran after one handler had run and before the other
  sTrace,        \* the calls, returns and raises of start_app, in order
  hTrace         \* the calls, returns and raises of shutdown_handler, in order

hostVars == <<platform, pendingTicks, dbComputes>>
startVars == <<spc, sIdx, computes, startErr, sTrace>>
ctrlVars == <<ctrlState, ctrlComputes, startArg>>
bgVars == <<bg, bgSelf>>
heapVars == <<pmInst, pmCount, modInst, modCount, modPM>>
portVars == <<alloc, unloadCalled, dirty, drained>>
shutVars == <<hpc, hIdx, hErr, hM, warned, inspected, hTrace>>
fixtureVars == <<resets, midReset>>
vars == <<hostVars, cur, startVars, ctrlVars, bgVars, heapVars, portVars,
          shutVars, fixtureVars>>

\* ------------------------------------------------------------- helpers
Ev(op, ph, k) == <<op, ph, k>>

SLog(evs) == sTrace' = sTrace \o evs

HLog(evs) == hTrace' = hTrace \o evs

\* PortManager.instance(): the singleton, created on the first call
PortManagerInstance == IF pmInst = 0 THEN pmCount + 1 ELSE pmInst

PortManagerInstanceCount == IF pmInst = 0 THEN pmCount + 1 ELSE pmCount

\* module.instance(): the singleton of module class k, created on the first call
ModuleInstance(k) == IF modInst[k] = 0 THEN <<k, modCount[k] + 1>> ELSE <<k, modInst[k]>>

\* PortManager.tcp_ports / PortManager.udp_ports of PortManager object pm
HeldPorts(pm, proto) == {a.port : a \in {b \in alloc : b.pm = pm /\ b.proto = proto}}

\* the ports module object o holds
HeldBy(o) == {a \in alloc : a.owner = o}

Init ==
  /\ platform \in Platforms
  /\ pendingTicks = 0
  /\ cur = "none"
  /\ dbComputes \in {1..n : n \in 0..MaxComputes}
  /\ spc = "idle"
  /\ sIdx = 0
  /\ computes = {}
  /\ startErr = "none"
  /\ ctrlState = "NotStarted"
  /\ ctrlComputes = {}
  /\ startArg = {}
  /\ bg = "none"
  /\ bgSelf = <<0, 0>>
  /\ pmInst = 0
  /\ pmCount = 0
  /\ modInst = [k \in Kinds |-> 0]
  /\ modCount = [k \in Kinds |-> 0]
  /\ modPM = << >>
  /\ unloadCalled = {}
  /\ alloc = {}
  /\ hpc = "idle"
  /\ hIdx = 0
  /\ hErr = "none"
  /\ hM = <<0, 0>>
  /\ warned = {}
  /\ inspected = 0
  /\ dirty = {}
  /\ drained = {}
  /\ resets = 0
  /\ midReset = FALSE
  /\ sTrace = << >>
  /\ hTrace = << >>

\* ------------------------------------------------------------- start_app
\* module.instance() for class k returning object o: the class keeps o, and a new
\* object has no port_manager yet
Instantiate(k, o) ==
  /\ modInst' = [modInst EXCEPT ![k] = o[2]]
  /\ modCount' = [modCount EXCEPT ![k] = IF modInst[k] = 0 THEN o[2] ELSE @]

\* mutant: lines 45-53 moved behind the loop of line 75
start_app_begin_tick_last ==
  /\ cur = "none"
  /\ spc = "idle"
  /\ spc' = "connect_to_db"
  /\ SLog(<<Ev("connect_to_db", "call", 0)>>)
  /\ UNCHANGED <<hostVars, cur, sIdx, computes,
                 startErr, ctrlVars, bgVars, heapVars, portVars, shutVars, fixtureVars>>

\* lines 40-61: the wake-up on Windows, then the call of connect_to_db, at which
\* start_app is suspended.  The level of the asyncio logger (lines 42-43) and the
\* loop's debug mode (lines 55-58) only select diagnostics of asyncio, which no
\* step of the handlers reads: they are not state of this model.
start_app_begin ==
  /\ cur = "none"
  /\ spc = "idle"
  /\ pendingTicks' = IF StartsWithWin(platform) THEN pendingTicks + 1 ELSE pendingTicks
  /\ spc' = "connect_to_db"
  /\ SLog(<<Ev("connect_to_db", "call", 0)>>)
  /\ UNCHANGED <<platform, dbComputes, cur, sIdx, computes,
                 startErr, ctrlVars, bgVars, heapVars, portVars, shutVars, fixtureVars>>

\* an awaited call of start_app raises: start_app ends with that exception
start_app_raise(op, k) ==
  /\ spc' = "failed"
  /\ startErr' = op
  /\ cur' = "none"
  /\ SLog(<<Ev(op, "raise", k)>>)
  /\ UNCHANGED <<hostVars, sIdx, computes, ctrlVars, bgVars, heapVars, portVars,
                 shutVars, fixtureVars>>

\* line 61 returns, line 64 calls get_computes
connect_to_db_ret ==
  /\ cur = "none"
  /\ spc = "connect_to_db"
  /\ spc' = "get_computes"
  /\ SLog(<<Ev("connect_to_db", "ret", 0), Ev("get_computes", "call", 0)>>)
  /\ UNCHANGED <<hostVars, cur, sIdx, computes, startErr, ctrlVars, bgVars, heapVars,
                 portVars, shutVars, fixtureVars>>

\* mutant: the exception of line 61 is swallowed and start_app goes on to line 64
connect_to_db_raise_swallowed ==
  /\ cur = "none"
  /\ spc = "connect_to_db"
  /\ spc' = "get_computes"
  /\ SLog(<<Ev("connect_to_db", "raise", 0), Ev("get_computes", "call", 0)>>)
  /\ UNCHANGED <<hostVars, cur, sIdx, computes, startErr, ctrlVars, bgVars, heapVars,
                 portVars, shutVars, fixtureVars>>

connect_to_db_raise ==
  /\ cur = "none"
  /\ spc = "connect_to_db"
  /\ start_app_raise("connect_to_db", 0)

\* mutant: line 66 passes the value computes had before line 64 assigned it
get_computes_ret_stale ==
  /\ cur = "none"
  /\ spc = "get_computes"
  /\ computes' = dbComputes
  /\ startArg' = computes
  /\ spc' = "Controller.start"
  /\ SLog(<<Ev("get_computes", "ret", 0), Ev("Controller.start", "call", 0)>>)
  /\ UNCHANGED <<hostVars, cur, sIdx, startErr, ctrlState, ctrlComputes, bgVars,
                 heapVars, portVars, shutVars, fixtureVars>>

\* line 64 returns the records of the database, line 66 calls Controller.start
get_computes_ret ==
  /\ cur = "none"
  /\ spc = "get_computes"
  /\ computes' = dbComputes
  /\ startArg' = computes'
  /\ spc' = "Controller.start"
  /\ SLog(<<Ev("get_computes", "ret", 0), Ev("Controller.start", "call", 0)>>)
  /\ UNCHANGED <<hostVars, cur, sIdx, startErr, ctrlState, ctrlComputes, bgVars,
                 heapVars, portVars, shutVars, fixtureVars>>

get_computes_raise ==
  /\ cur = "none"
  /\ spc = "get_computes"
  /\ start_app_raise("get_computes", 0)

\* line 66 returns: the Controller runs with the computes it was given, and
\* start_app goes on, without another await, to lines 71-78
Controller_start_ret ==
  /\ cur = "none"
  /\ spc = "Controller.start"
  /\ ctrlState' = "Running"
  /\ ctrlComputes' = startArg
  /\ spc' = "launch"
  /\ cur' = "start"
  /\ SLog(<<Ev("Controller.start", "ret", 0)>>)
  /\ UNCHANGED <<hostVars, sIdx, computes, startErr, startArg, bgVars, heapVars,
                 portVars, shutVars, fixtureVars>>

Controller_start_raise ==
  /\ cur = "none"
  /\ spc = "Controller.start"
  /\ start_app_raise("Controller.start", 0)

\* mutant: line 73 awaits list_images instead of scheduling it
launch_list_images_awaited ==
  /\ cur = "start"
  /\ spc = "launch"
  /\ LET o == ModuleInstance(Qemu) IN
       /\ Instantiate(Qemu, o)
       /\ modPM' = IF o \in DOMAIN modPM THEN modPM ELSE modPM @@ (o :> 0)
       /\ bgSelf' = o
  /\ bg' = "pending"
  /\ spc' = "list_images"
  /\ cur' = "none"
  /\ SLog(<<Ev("list_images", "call", 0)>>)
  /\ UNCHANGED <<hostVars, sIdx, computes, startErr, ctrlVars, pmInst, pmCount,
                 portVars, shutVars, fixtureVars>>

\* lines 71-73: Qemu.instance().list_images() makes the coroutine, ensure_future
\* schedules it as a task and returns at once
launch_list_images ==
  /\ cur = "start"
  /\ spc = "launch"
  /\ LET o == ModuleInstance(Qemu) IN
       /\ Instantiate(Qemu, o)
       /\ modPM' = IF o \in DOMAIN modPM THEN modPM ELSE modPM @@ (o :> 0)
       /\ bgSelf' = o
  /\ bg' = "pending"
  /\ spc' = "load"
  /\ sIdx' = 1
  /\ SLog(<<Ev("ensure_future", "call", 0)>>)
  /\ UNCHANGED <<hostVars, cur, computes, startErr, ctrlVars, pmInst, pmCount,
                 portVars, shutVars, fixtureVars>>

\* line 73: the first Qemu.instance() constructs the object, and that raises
launch_raise ==
  /\ cur = "start"
  /\ spc = "launch"
  /\ modInst[Qemu] = 0
  /\ start_app_raise("instance", Qemu)

\* mutant: line 78 gives each module a PortManager of its own
load_module_own_manager ==
  /\ cur = "start"
  /\ spc = "load"
  /\ sIdx <= NumModules
  /\ LET k == MODULES[sIdx]
         o == ModuleInstance(k)
     IN
       /\ Instantiate(k, o)
       /\ modPM' = IF o \in DOMAIN modPM
                   THEN [modPM EXCEPT ![o] = pmCount + 1]
                   ELSE modPM @@ (o :> pmCount + 1)
       /\ SLog(<<Ev("instance", "ret", k), Ev("port_manager", "set", k)>>)
  /\ pmInst' = pmInst
  /\ pmCount' = pmCount + 1
  /\ sIdx' = sIdx + 1
  /\ UNCHANGED <<hostVars, cur, spc, computes, startErr, ctrlVars, bgVars, portVars,
                 shutVars, fixtureVars>>

\* lines 75-78, one turn of the loop: the module's singleton gets the
\* PortManager singleton as its port_manager
load_module ==
  /\ cur = "start"
  /\ spc = "load"
  /\ sIdx <= NumModules
  /\ LET k == MODULES[sIdx]
         o == ModuleInstance(k)
     IN
       /\ Instantiate(k, o)
       /\ modPM' = IF o \in DOMAIN modPM
                   THEN [modPM EXCEPT ![o] = PortManagerInstance]
                   ELSE modPM @@ (o :> PortManagerInstance)
       /\ SLog(<<Ev("instance", "ret", k), Ev("port_manager", "set", k)>>)
  /\ pmInst' = PortManagerInstance
  /\ pmCount' = PortManagerInstanceCount
  /\ sIdx' = sIdx + 1
  /\ UNCHANGED <<hostVars, cur, spc, computes, startErr, ctrlVars, bgVars, portVars,
                 shutVars, fixtureVars>>

\* line 77: the first module.instance() constructs the object, and that raises
load_module_raise ==
  /\ cur = "start"
  /\ spc = "load"
  /\ sIdx <= NumModules
  /\ modInst[MODULES[sIdx]] = 0
  /\ start_app_raise("instance", MODULES[sIdx])

\* the loop of line 75 is over: start_app returns
start_app_return ==
  /\ cur = "start"
  /\ spc = "load"
  /\ sIdx > NumModules
  /\ spc' = "done"
  /\ cur' = "none"
  /\ SLog(<<Ev("start_app", "ret", 0)>>)
  /\ UNCHANGED <<hostVars, sIdx, computes, startErr, ctrlVars, bgVars, heapVars,
                 portVars, shutVars, fixtureVars>>

\* lines 50-51: a scheduled wakeup runs and schedules the next one
wakeup ==
  /\ cur = "none"
  /\ pendingTicks > 0
  /\ pendingTicks' = (pendingTicks - 1) + 1
  /\ UNCHANGED <<platform, dbComputes, cur, startVars, ctrlVars,
                 bgVars, heapVars, portVars, shutVars, fixtureVars>>

\* the same callback in two steps. The loop takes the due timer off its schedule and
\* calls wakeup(), which holds the thread (line 50) ...
wakeup_fires ==
  /\ cur = "none"
  /\ pendingTicks > 0
  /\ pendingTicks' = pendingTicks - 1
  /\ cur' = "wakeup"
  /\ UNCHANGED <<platform, dbComputes, startVars, ctrlVars,
                 bgVars, heapVars, portVars, shutVars, fixtureVars>>

\* mutant: wakeup() without its line 51
wakeup_once ==
  /\ cur = "wakeup"
  /\ cur' = "none"
  /\ UNCHANGED <<platform, pendingTicks, dbComputes, startVars, ctrlVars,
                 bgVars, heapVars, portVars, shutVars, fixtureVars>>

\* mutant: wakeup() with line 51 twice
wakeup_twice ==
  /\ cur = "wakeup"
  /\ pendingTicks' = pendingTicks + 2
  /\ cur' = "none"
  /\ UNCHANGED <<platform, dbComputes, startVars, ctrlVars,
                 bgVars, heapVars, portVars, shutVars, fixtureVars>>

\* ... and line 51: wakeup() schedules its successor and returns
wakeup_call_later ==
  /\ cur = "wakeup"
  /\ pendingTicks' = pendingTicks + 1
  /\ cur' = "none"
  /\ UNCHANGED <<platform, dbComputes, startVars, ctrlVars,
                 bgVars, heapVars, portVars, shutVars, fixtureVars>>

\* the task of line 73: the loop gives it its first step, and later it ends
list_images_step ==
  /\ cur = "none"
  /\ bg = "pending"
  /\ bg' = "running"
  /\ UNCHANGED <<hostVars, cur, startVars, ctrlVars, bgSelf, heapVars, portVars,
                 shutVars, fixtureVars>>

list_images_ret ==
  /\ cur = "none"
  /\ bg = "running"
  /\ bg' = "done"
  /\ UNCHANGED <<hostVars, cur, startVars, ctrlVars, bgSelf, heapVars, portVars,
                 shutVars, fixtureVars>>

list_images_raise ==
  /\ cur = "none"
  /\ bg = "running"
  /\ bg' = "failed"
  /\ UNCHANGED <<hostVars, cur, startVars, ctrlVars, bgSelf, heapVars, portVars,
                 shutVars, fixtureVars>>

\* ------------------------------------------------------------- shutdown_handler
\* line 89: the call of HTTPClient.close_session, at which the handler is suspended
shutdown_begin ==
  /\ cur = "none"
  /\ hpc = "idle"
  /\ hpc' = "close_session"
  /\ HLog(<<Ev("close_session", "call", 0)>>)
  /\ UNCHANGED <<hostVars, cur, startVars, ctrlVars, bgVars, heapVars, portVars,
                 hIdx, hErr, hM, warned, inspected, fixtureVars>>

\* an awaited call of shutdown_handler raises: the handler ends with that exception
shutdown_raise(op, k) ==
  /\ hpc' = "failed"
  /\ hErr' = op
  /\ cur' = "none"
  /\ HLog(<<Ev(op, "raise", k)>>)
  /\ UNCHANGED <<hostVars, startVars, ctrlVars, bgVars, heapVars, hIdx, hM, warned,
                 inspected, fixtureVars>>

\* line 89 returns, line 90 calls Controller.instance().stop()
close_session_ret ==
  /\ cur = "none"
  /\ hpc = "close_session"
  /\ hpc' = "Controller.stop"
  /\ HLog(<<Ev("close_session", "ret", 0), Ev("Controller.stop", "call", 0)>>)
  /\ UNCHANGED <<hostVars, cur, startVars, ctrlVars, bgVars, heapVars, portVars,
                 hIdx, hErr, hM, warned, inspected, fixtureVars>>

close_session_raise ==
  /\ cur = "none"
  /\ hpc = "close_session"
  /\ shutdown_raise("close_session", 0)
  /\ UNCHANGED portVars

\* mutant: the loop of line 92 starts at the second module
Controller_stop_ret_skip_first ==
  /\ cur = "none"
  /\ hpc = "Controller.stop"
  /\ ctrlState' = "Stopped"
  /\ hpc' = "loop"
  /\ hIdx' = 2
  /\ cur' = "shutdown"
  /\ HLog(<<Ev("Controller.stop", "ret", 0)>>)
  /\ UNCHANGED <<hostVars, startVars, ctrlComputes, startArg, bgVars, heapVars,
                 portVars, hErr, hM, warned, inspected, fixtureVars>>

\* line 90 returns: the Controller is stopped, and the handler enters the loop
Controller_stop_ret ==
  /\ cur = "none"
  /\ hpc = "Controller.stop"
  /\ ctrlState' = "Stopped"
  /\ hpc' = "loop"
  /\ hIdx' = 1
  /\ cur' = "shutdown"
  /\ HLog(<<Ev("Controller.stop", "ret", 0)>>)
  /\ UNCHANGED <<hostVars, startVars, ctrlComputes, startArg, bgVars, heapVars,
                 portVars, hErr, hM, warned, inspected, fixtureVars>>

Controller_stop_raise ==
  /\ cur = "none"
  /\ hpc = "Controller.stop"
  /\ shutdown_raise("Controller.stop", 0)
  /\ UNCHANGED portVars

\* mutant: line 95 calls m.unload() without awaiting it
unload_call_not_awaited ==
  /\ cur = "shutdown"
  /\ hpc = "loop"
  /\ hIdx <= NumModules
  /\ LET k == MODULES[hIdx]
         o == ModuleInstance(k)
     IN
       /\ Instantiate(k, o)
       /\ modPM' = IF o \in DOMAIN modPM THEN modPM ELSE modPM @@ (o :> 0)
       /\ hM' = o
       /\ unloadCalled' = unloadCalled \cup {o}
       /\ HLog(<<Ev("unload", "call", k)>>)
  /\ hIdx' = hIdx + 1
  /\ UNCHANGED <<hostVars, cur, startVars, ctrlVars, bgVars, pmInst, pmCount, alloc,
                 dirty, drained, hpc, hErr, warned, inspected, fixtureVars>>

\* mutant: line 94 builds an object, m = module(), instead of asking for the singleton
unload_call_new_object ==
  /\ cur = "shutdown"
  /\ hpc = "loop"
  /\ hIdx <= NumModules
  /\ LET k == MODULES[hIdx]
         o == <<k, modCount[k] + 1>>
     IN
       /\ modCount' = [modCount EXCEPT ![k] = o[2]]
       /\ modPM' = modPM @@ (o :> 0)
       /\ hM' = o
       /\ unloadCalled' = unloadCalled \cup {o}
       /\ HLog(<<Ev("unload", "call", k)>>)
  /\ hpc' = "unload"
  /\ cur' = "none"
  /\ UNCHANGED <<hostVars, startVars, ctrlVars, bgVars, pmInst, pmCount, modInst, alloc,
                 dirty, drained, hIdx, hErr, warned, inspected, fixtureVars>>

\* mutant: line 92 iterates over reversed(MODULES)
unload_call_reversed ==
  /\ cur = "shutdown"
  /\ hpc = "loop"
  /\ hIdx <= NumModules
  /\ LET k == MODULES[NumModules + 1 - hIdx]
         o == ModuleInstance(k)
     IN
       /\ Instantiate(k, o)
       /\ modPM' = IF o \in DOMAIN modPM THEN modPM ELSE modPM @@ (o :> 0)
       /\ hM' = o
       /\ unloadCalled' = unloadCalled \cup {o}
       /\ HLog(<<Ev("unload", "call", k)>>)
  /\ hpc' = "unload"
  /\ cur' = "none"
  /\ UNCHANGED <<hostVars, startVars, ctrlVars, bgVars, pmInst, pmCount, alloc, dirty,
                 drained, hIdx, hErr, warned, inspected, fixtureVars>>

\* lines 92-95, one turn of the loop up to the await: m = module.instance(), then
\* the call of m.unload(), at which the handler is suspended
unload_call ==
  /\ cur = "shutdown"
  /\ hpc = "loop"
  /\ hIdx <= NumModules
  /\ LET k == MODULES[hIdx]
         o == ModuleInstance(k)
     IN
       /\ Instantiate(k, o)
       /\ modPM' = IF o \in DOMAIN modPM THEN modPM ELSE modPM @@ (o :> 0)
       /\ hM' = o
       /\ unloadCalled' = unloadCalled \cup {o}
       /\ HLog(<<Ev("unload", "call", k)>>)
  /\ hpc' = "unload"
  /\ cur' = "none"
  /\ UNCHANGED <<hostVars, startVars, ctrlVars, bgVars, pmInst, pmCount, alloc, dirty,
                 drained, hIdx, hErr, warned, inspected, fixtureVars>>

\* line 94: the first module.instance() constructs the object, and that raises
unload_instance_raise ==
  /\ cur = "shutdown"
  /\ hpc = "loop"
  /\ hIdx <= NumModules
  /\ modInst[MODULES[hIdx]] = 0
  /\ shutdown_raise("instance", MODULES[hIdx])
  /\ UNCHANGED portVars

\* m.unload() releases the ports in R, of those m holds
Unloaded(R) ==
  /\ R \subseteq HeldBy(hM)
  /\ alloc' = alloc \ R
  /\ drained' = drained \cup {a.pm : a \in R}
  /\ UNCHANGED unloadCalled

\* line 95 returns: the next turn of the loop
unload_ret ==
  /\ cur = "none"
  /\ hpc = "unload"
  /\ \E R \in SUBSET HeldBy(hM) :
       /\ Unloaded(R)
       /\ dirty' = IF R = HeldBy(hM) THEN dirty ELSE dirty \cup {hM}
  /\ hIdx' = hIdx + 1
  /\ hpc' = "loop"
  /\ cur' = "shutdown"
  /\ HLog(<<Ev("unload", "ret", hM[1])>>)
  /\ UNCHANGED <<hostVars, startVars, ctrlVars, bgVars, heapVars, hErr, hM, warned,
                 inspected, fixtureVars>>

\* line 95 raises
unload_raise ==
  /\ cur = "none"
  /\ hpc = "unload"
  /\ \E R \in SUBSET HeldBy(hM) : Unloaded(R)
  /\ dirty' = dirty \cup {hM}
  /\ shutdown_raise("unload", hM[1])

\* the protocols whose held-port set of PortManager pm is not empty (the tests of
\* lines 97 and 100)
StillUsed(pm) == {p \in Protos : HeldPorts(pm, p) # {}}

\* mutant: line 100 is an elif of line 97
inspect_ports_elif ==
  /\ cur = "shutdown"
  /\ hpc = "loop"
  /\ hIdx > NumModules
  /\ pmInst' = PortManagerInstance
  /\ pmCount' = PortManagerInstanceCount
  /\ inspected' = PortManagerInstance
  /\ warned' = IF "tcp" \in StillUsed(PortManagerInstance)
               THEN {"tcp"}
               ELSE StillUsed(PortManagerInstance)
  /\ hpc' = "done"
  /\ cur' = "none"
  /\ HLog(<<Ev("inspect", "ret", 0)>>)
  /\ UNCHANGED <<hostVars, startVars, ctrlVars, bgVars, modInst, modCount, modPM,
                 portVars, hIdx, hErr, hM, fixtureVars>>

\* lines 97-101: after the loop, a warning for each protocol with held ports; the
\* handler returns
inspect_ports ==
  /\ cur = "shutdown"
  /\ hpc = "loop"
  /\ hIdx > NumModules
  /\ pmInst' = PortManagerInstance
  /\ pmCount' = PortManagerInstanceCount
  /\ inspected' = PortManagerInstance
  /\ warned' = StillUsed(PortManagerInstance)
  /\ hpc' = "done"
  /\ cur' = "none"
  /\ HLog(<<Ev("inspect", "ret", 0)>>)
  /\ UNCHANGED <<hostVars, startVars, ctrlVars, bgVars, modInst, modCount, modPM,
                 portVars, hIdx, hErr, hM, fixtureVars>>

\* ------------------------------------------------------------- the modules at work
\* the singleton of module class k takes a free port from its port_manager
acquire_port(k, proto, port) ==
  /\ cur = "none"
  /\ modInst[k] # 0
  /\ LET o == <<k, modInst[k]>> IN
       /\ modPM[o] # 0
       /\ o \notin unloadCalled
       /\ port \notin HeldPorts(modPM[o], proto)
       /\ alloc' = alloc \cup {[pm |-> modPM[o], proto |-> proto, port |-> port, owner |-> o]}
  /\ UNCHANGED <<hostVars, cur, startVars, ctrlVars, bgVars, heapVars, unloadCalled,
                 dirty, drained, shutVars, fixtureVars>>

\* the singleton of module class k releases a port it holds
release_port(k, proto, port) ==
  /\ cur = "none"
  /\ modInst[k] # 0
  /\ LET o == <<k, modInst[k]>> IN
       /\ o \notin unloadCalled
       /\ \E a \in HeldBy(o) :
            /\ a.proto = proto
            /\ a.port = port
            /\ alloc' = alloc \ {a}
  /\ UNCHANGED <<hostVars, cur, startVars, ctrlVars, bgVars, heapVars, unloadCalled,
                 dirty, drained, shutVars, fixtureVars>>

\* ------------------------------------------------------------- the test fixtures
\* mutant: run_around_tests without its loop over MODULES (lines 343-344)
reset_singletons_keep_modules ==
  /\ cur = "none"
  /\ resets < MaxResets
  /\ spc \in {"idle", "done", "failed"}
  /\ hpc \in {"idle", "done", "failed"}
  /\ pmInst' = pmCount + 1
  /\ pmCount' = pmCount + 1
  /\ resets' = resets + 1
  /\ midReset' = (midReset \/ ((spc = "idle") # (hpc = "idle")))
  /\ UNCHANGED <<hostVars, cur, startVars, ctrlVars, bgVars, modInst, modCount, modPM,
                 portVars, shutVars>>

\* port_manager, then run_around_tests, in the setup of a test (no handler is
\* suspended across it): a fresh PortManager singleton, and every module class
\* without an instance
reset_singletons ==
  /\ cur = "none"
  /\ resets < MaxResets
  /\ spc \in {"idle", "done", "failed"}
  /\ hpc \in {"idle", "done", "failed"}
  /\ pmInst' = pmCount + 1
  /\ pmCount' = pmCount + 1
  /\ modInst' = [k \in Kinds |-> 0]
  /\ resets' = resets + 1
  /\ midReset' = (midReset \/ ((spc = "idle") # (hpc = "idle")))
  /\ UNCHANGED <<hostVars, cur, startVars, ctrlVars, bgVars, modCount, modPM, portVars,
                 shutVars>>

\* ------------------------------------------------------------- specification
\* the server under its event loop: the two handlers, the task and the port traffic
Server ==
  \/ start_app_begin
  \/ connect_to_db_ret
  \/ connect_to_db_raise
  \/ get_computes_ret
  \/ get_computes_raise
  \/ Controller_start_ret
  \/ Controller_start_raise
  \/ launch_list_images
  \/ launch_raise
  \/ load_module
  \/ load_module_raise
  \/ start_app_return
  \/ list_images_step
  \/ list_images_ret
  \/ list_images_raise
  \/ shutdown_begin
  \/ close_session_ret
  \/ close_session_raise
  \/ Controller_stop_ret
  \/ Controller_stop_raise
  \/ unload_call
  \/ unload_instance_raise
  \/ unload_ret
  \/ unload_raise
  \/ inspect_ports
  \/ \E k \in Kinds, proto \in Protos, port \in Ports : acquire_port(k, proto, port)
  \/ \E k \in Kinds, proto \in Protos, port \in Ports : release_port(k, proto, port)

\* the server with the wake-up callback as one step, and the test fixtures
Next ==
  \/ Server
  \/ wakeup
  \/ reset_singletons

Spec == Init /\ [][Next]_vars

\* one run of the server, with the wake-up callback as the loop runs it: taken
\* off the schedule, then run
NextTick ==
  \/ Server
  \/ wakeup_fires
  \/ wakeup_call_later

\* the straight-line code between two awaits of a coroutine, and of a callback
RunToAwait ==
  \/ launch_list_images
  \/ launch_raise
  \/ load_module
  \/ load_module_raise
  \/ start_app_return
  \/ unload_call
  \/ unload_instance_raise
  \/ inspect_ports
  \/ wakeup_call_later

\* A running loop calls a due timer when the thread is free, and code that holds the
\* thread runs on to its next await or to its return.
SpecTick ==
  /\ Init
  /\ [][NextTick]_vars
  /\ WF_vars(wakeup_fires)
  /\ WF_vars(RunToAwait)

\* ------------------------------------------------------------- properties
IsPrefix(s, t) == Len(s) <= Len(t) /\ \A i \in 1..Len(s) : s[i] = t[i]

IsReturn(e) == e[2] # "raise"

\* a trace without its raises
Returns(tr) == SelectSeq(tr, IsReturn)

InTrace(tr, e) == \E i \in 1..Len(tr) : tr[i] = e

\* the steps of a start_app run in which nothing raises
LoadSteps ==
  [j \in 1..(2 * NumModules) |->
     IF j % 2 = 1 THEN Ev("instance", "ret", MODULES[(j + 1) \div 2])
                  ELSE Ev("port_manager", "set", MODULES[j \div 2])]

StartSteps ==
  <<Ev("connect_to_db", "call", 0), Ev("connect_to_db", "ret", 0),
    Ev("get_computes", "call", 0), Ev("get_computes", "ret", 0),
    Ev("Controller.start", "call", 0), Ev("Controller.start", "ret", 0),
    Ev("ensure_future", "call", 0)>> \o LoadSteps \o <<Ev("start_app", "ret", 0)>>

\* the place of a call in the order of start_app
StartRank(op) ==
  CASE op = "connect_to_db" -> 1
    [] op = "get_computes" -> 2
    [] op = "Controller.start" -> 3
    [] op = "ensure_future" -> 4
    [] OTHER -> 5

\* every module class has an instance whose port_manager is the PortManager singleton
AllInjected ==
  /\ pmInst # 0
  /\ \A k \in Kinds : modInst[k] # 0 /\ modPM[<<k, modInst[k]>>] = pmInst

\* C1: start_app runs connect_to_db, get_computes, Controller.start, the launch of
\* the image-listing task and the loading of the modules in this order, each after
\* the previous one has returned, and Controller.start gets exactly the computes
\* get_computes returned.
C1_StartupOrder ==
  /\ IsPrefix(Returns(sTrace), StartSteps)
  /\ InTrace(sTrace, Ev("Controller.start", "call", 0))
       => computes = dbComputes /\ startArg = computes
  /\ ctrlState = "Running" => ctrlComputes = dbComputes
  /\ bg # "none" => InTrace(sTrace, Ev("Controller.start", "ret", 0))
  /\ (\E o \in DOMAIN modPM : modPM[o] # 0) => bg # "none"

C1_Witness ==
  /\ spc = "done"
  /\ sTrace = StartSteps
  /\ dbComputes # {}
  /\ ctrlComputes = dbComputes

\* C2: when connect_to_db, get_computes or Controller.start raises, start_app ends
\* with that error and no later step runs: no later call is made, the task is not
\* launched and no module gets a port manager.
C2_FailureStopsStartup ==
  \A i \in 1..Len(sTrace) :
    (sTrace[i][2] = "raise" /\ StartRank(sTrace[i][1]) <= 3) =>
      /\ i = Len(sTrace)
      /\ spc = "failed"
      /\ startErr = sTrace[i][1]
      /\ \A j \in 1..i : StartRank(sTrace[j][1]) <= StartRank(sTrace[i][1])
      /\ bg = "none"
      /\ \A o \in DOMAIN modPM : modPM[o] = 0
      /\ StartRank(sTrace[i][1]) <= 2 => startArg = {} /\ ctrlState # "Running"

C2_Witness ==
  /\ spc = "failed"
  /\ startErr = "connect_to_db"
  /\ sTrace = <<Ev("connect_to_db", "call", 0), Ev("connect_to_db", "raise", 0)>>

\* C3: the image-listing task is fire-and-forget: once it is launched start_app is
\* never suspended again, and no step of the task, whether it runs, returns or
\* raises, changes anything of start_app, the modules or the Controller.
C3_FireAndForget ==
  [][/\ (bg # "none" /\ bg' # bg) => UNCHANGED <<startVars, heapVars, ctrlVars>>
     /\ bg' # "none" => spc' \in {"load", "done", "failed"}
     /\ spc' = "load" => cur' = "start"]_vars

C3_Witness ==
  /\ spc = "done"
  /\ bg = "failed"
  /\ sTrace = StartSteps

\* C4: when start_app returns, every module of MODULES has an instance, and the
\* port_manager of each is the one PortManager singleton.
C4_SharedPortManager ==
  [][(spc # "done" /\ spc' = "done") => AllInjected']_vars

C4_Witness ==
  /\ spc = "done"
  /\ AllInjected
  /\ Cardinality({modPM[<<k, modInst[k]>>] : k \in Kinds}) = 1

\* C5: a module whose loading raises does not stop the loading: every other module
\* of MODULES is loaded, and start_app returns.
C5_ModuleLoadIsolation ==
  (spc \in {"done", "failed"} /\ InTrace(sTrace, Ev("ensure_future", "call", 0))) =>
    /\ spc = "done"
    /\ \A k \in Kinds :
         \/ InTrace(sTrace, Ev("instance", "raise", k))
         \/ InTrace(sTrace, Ev("port_manager", "set", k))

\* the steps of a shutdown_handler run in which nothing raises
UnloadSteps ==
  [j \in 1..(2 * NumModules) |->
     IF j % 2 = 1 THEN Ev("unload", "call", MODULES[(j + 1) \div 2])
                  ELSE Ev("unload", "ret", MODULES[j \div 2])]

ShutSteps ==
  <<Ev("close_session", "call", 0), Ev("close_session", "ret", 0),
    Ev("Controller.stop", "call", 0), Ev("Controller.stop", "ret", 0)>>
    \o UnloadSteps \o <<Ev("inspect", "ret", 0)>>

\* C6: shutdown_handler runs close_session, Controller.stop, the unload of every
\* module and the inspection of the held ports in this order, each after the
\* previous one has returned; the inspection comes after the last unload returned.
C6_ShutdownOrder ==
  /\ IsPrefix(Returns(hTrace), ShutSteps)
  /\ inspected # 0 => \A k \in Kinds : InTrace(hTrace, Ev("unload", "ret", k))
  /\ unloadCalled # {} => InTrace(hTrace, Ev("Controller.stop", "ret", 0))
  /\ hpc = "done" <=> inspected # 0

C6_Witness ==
  /\ hpc = "done"
  /\ hTrace = ShutSteps
  /\ sTrace = StartSteps

\* C7: when close_session or Controller.stop raises (here in a shutdown after a
\* startup that completed), the later steps of the shutdown still run: the
\* Controller is stopped, every module is unloaded and the held ports are inspected.
C7_ShutdownBestEffort ==
  (/\ spc = "done"
   /\ hpc \in {"done", "failed"}
   /\ \/ InTrace(hTrace, Ev("close_session", "raise", 0))
      \/ InTrace(hTrace, Ev("Controller.stop", "raise", 0))) =>
    /\ InTrace(hTrace, Ev("Controller.stop", "call", 0))
    /\ \A k \in Kinds : InTrace(hTrace, Ev("unload", "call", k))
    /\ inspected # 0

\* C8: when the unload() of a module raises (here in a shutdown after a startup
\* that completed), the shutdown goes on: unload() is called on every other module
\* and the held ports are inspected.
C8_ModuleUnloadIsolation ==
  (/\ spc = "done"
   /\ hpc \in {"done", "failed"}
   /\ \E k \in Kinds : InTrace(hTrace, Ev("unload", "raise", k))) =>
    /\ \A k \in Kinds : InTrace(hTrace, Ev("unload", "call", k))
    /\ inspected # 0

\* C9: the inspection warns about a protocol exactly when the PortManager singleton
\* holds a port of that protocol; it ends the handler without an error and leaves
\* the held ports as they are; no other step warns.
C9_LeakWarnings ==
  [][/\ (hpc # "done" /\ hpc' = "done") =>
          /\ inspected' = pmInst' /\ inspected' # 0
          /\ \A p \in Protos : p \in warned' <=> HeldPorts(inspected, p)' # {}
          /\ alloc' = alloc
          /\ hErr' = "none"
     /\ warned' # warned => (hpc # "done" /\ hpc' = "done")]_vars

C9_Witness ==
  /\ spc = "done"
  /\ hpc = "done"
  /\ hErr = "none"
  /\ warned = {"udp"}

\* C10: a port the inspection finds held belongs to a module whose unload() did
\* not release all its ports; when every unload() released all the ports of its
\* module, no port is held and nothing is warned about.
C10_ShutdownCompleteness ==
  [][(hpc # "done" /\ hpc' = "done") =>
        /\ \A a \in alloc' : a.pm = inspected' => a.owner \in dirty'
        /\ dirty' = {} =>
             /\ warned' = {}
             /\ \A p \in Protos : HeldPorts(inspected, p)' = {}]_vars

C10_Witness ==
  /\ spc = "done"
  /\ hpc = "done"
  /\ dirty = {}
  /\ inspected \in drained
  /\ warned = {}

IsInjection(e) == e[1] = "port_manager"

IsUnloadCall(e) == e[1] = "unload" /\ e[2] = "call"

\* the module classes of a sequence of events, in order
KindsOf(tr) == [i \in 1..Len(tr) |-> tr[i][3]]

\* the order in which start_app injected the modules
LoadOrder == KindsOf(SelectSeq(sTrace, IsInjection))

\* the order in which shutdown_handler called unload() on the modules
UnloadOrder == KindsOf(SelectSeq(hTrace, IsUnloadCall))

Reverse(s) == [i \in 1..Len(s) |-> s[Len(s) + 1 - i]]

\* C11 as claimed: once both handlers have returned, the order of the unloads is
\* the reverse of the order of the injections.
C11_DrainedInReverse ==
  (spc = "done" /\ hpc = "done") => UnloadOrder = Reverse(LoadOrder)

\* C11 as amended: both handlers go through MODULES from its first element on, so
\* the modules are unloaded in the same order in which they were injected.
C11_DrainedInLoadOrder ==
  /\ IsPrefix(LoadOrder, MODULES)
  /\ IsPrefix(UnloadOrder, MODULES)
  /\ (spc = "done" /\ hpc = "done") => UnloadOrder = LoadOrder

C11_Witness ==
  /\ spc = "done"
  /\ hpc = "done"
  /\ LoadOrder = MODULES
  /\ UnloadOrder = MODULES
  /\ UnloadOrder # Reverse(LoadOrder)

\* a step of the wake-up callback: the loop calls it, or it returns
TickStep == cur' = "wakeup" \/ cur = "wakeup"

\* the wake-up chain is alive: a tick is on the schedule, or one is running
TickArmed == pendingTicks >= 1 \/ cur = "wakeup"

\* C12: off Windows no tick is ever scheduled or run. On Windows, from the call of
\* start_app on, a tick is always scheduled or running, every scheduled tick fires
\* and is followed by another, and no step of a tick changes the controller, the
\* modules, the port managers or the handlers.
C12_KeepAliveTick ==
  /\ [](~StartsWithWin(platform) => pendingTicks = 0 /\ cur # "wakeup")
  /\ []((StartsWithWin(platform) /\ spc # "idle") => TickArmed)
  /\ [][TickStep => UNCHANGED <<platform, dbComputes, startVars, ctrlVars, bgVars,
                                heapVars, portVars, shutVars, fixtureVars>>]_vars
  /\ ((StartsWithWin(platform) /\ spc # "idle") ~> (cur = "wakeup"))
  /\ ((cur = "wakeup") ~> (cur # "wakeup" /\ pendingTicks >= 1))

C12_Witness ==
  /\ StartsWithWin(platform)
  /\ cur = "wakeup"
  /\ pendingTicks = 0
  /\ ctrlState = "Running"
  /\ alloc # {}

\* C13 as claimed: a tick is scheduled only once every module has been loaded and
\* injected, so a startup that failed before that has none.
C13_TickIsLastStep ==
  pendingTicks > 0 => LoadOrder = MODULES

\* C13 as amended: on Windows the tick is scheduled by the first step of start_app,
\* before connect_to_db is called: it is scheduled exactly from the moment start_app
\* runs, whether a later step fails or not.
C13_TickIsFirstStep ==
  StartsWithWin(platform) =>
    /\ (pendingTicks > 0) <=> (spc # "idle")
    /\ InTrace(sTrace, Ev("connect_to_db", "call", 0)) => pendingTicks > 0
    /\ spc = "failed" => pendingTicks > 0

C13_Witness ==
  /\ StartsWithWin(platform)
  /\ spc = "failed"
  /\ startErr = "connect_to_db"
  /\ LoadOrder = << >>
  /\ pendingTicks = 1

\* the step in which object o gets its port_manager
InjectedNow(o) ==
  /\ o \in DOMAIN modPM'
  /\ modPM'[o] # 0
  /\ (o \in DOMAIN modPM => modPM[o] = 0)

\* C14: once start_app has been called, no step injects the port manager into a
\* module on which the shutdown handler has already called unload(), and
\* Controller.stop is not executed unless Controller.start has completed.
C14_NoEarlyShutdown ==
  [][spc # "idle" =>
       /\ \A o \in unloadCalled : ~InjectedNow(o)
       /\ (ctrlState # "Stopped" /\ ctrlState' = "Stopped") => ctrlState = "Running"]_vars

\* the module objects that are the singletons of their classes
Singletons == {<<k, modInst[k]>> : k \in {j \in Kinds : modInst[j] # 0}}

\* the singletons keep to the current port manager: a module singleton has no port
\* manager or the current one, and the current one holds ports of singletons only
SingletonsIsolated ==
  /\ \A o \in Singletons : modPM[o] \in {0, pmInst}
  /\ \A a \in alloc : a.pm = pmInst => a.owner \in Singletons

\* a step other than the reset keeps every singleton that exists
SingletonsKept ==
  /\ pmInst # 0 => pmInst' = pmInst
  /\ \A k \in Kinds : modInst[k] # 0 => modInst'[k] = modInst[k]

\* the reset leaves no module singleton and a port manager that never existed
\* before, holding nothing
SingletonsFresh ==
  /\ \A k \in Kinds : modInst'[k] = 0
  /\ pmInst' > pmCount
  /\ \A a \in alloc' : a.pm # pmInst'

\* a module singleton created by a step is an object that never existed before, and
\* it has no port manager unless this step injects the current one
CreatedFresh ==
  \A k \in Kinds :
    (modInst[k] = 0 /\ modInst'[k] # 0) =>
      /\ <<k, modInst'[k]>> \notin DOMAIN modPM
      /\ modPM'[<<k, modInst'[k]>>] \in {0, pmInst'}

\* C15: instance() gives the same singleton until a reset; the reset of the test
\* fixtures leaves fresh singletons, so a module created after it has no port
\* manager of an earlier startup, and the fresh port manager holds no port acquired
\* before the reset.
C15_ResetIsolation ==
  /\ []SingletonsIsolated
  /\ [][/\ resets' = resets => SingletonsKept
        /\ resets' # resets => SingletonsFresh
        /\ CreatedFresh]_vars

C15_Witness ==
  /\ resets = 1
  /\ spc = "done"
  /\ pmInst = 2
  /\ \E a \in alloc : a.pm = 1
  /\ \E k \in Kinds : /\ modInst[k] = 2
                      /\ modPM[<<k, 2>>] = 0
                      /\ modPM[<<k, 1>>] = 1

\* port manager pm has been injected into an object of every module class
InjectedIntoAll(pm) ==
  \A k \in Kinds : \E o \in DOMAIN modPM : o[1] = k /\ modPM[o] = pm

\* C16: once the task of line 73 has had its first step, start_app is past its
\* loading loop, and the Qemu object the task was created on has a port manager,
\* the one that has been injected into every module.
C16_TaskRunsAfterLoading ==
  bg \in {"running", "done", "failed"} =>
    /\ spc \in {"done", "failed"}
    /\ modPM[bgSelf] # 0
    /\ InjectedIntoAll(modPM[bgSelf])

\* the module objects into which a port manager has been injected
Injected == {o \in DOMAIN modPM : modPM[o] # 0}

\* C17: when both handlers have returned and no reset ran between them, the port
\* manager that the shutdown handler inspected is the one injected into every
\* module, the objects it unloaded are the injected ones, one of each class, and
\* every port still held is held from that port manager by one of those objects.
C17_SameInstancesAtShutdown ==
  (~midReset /\ spc = "done" /\ hpc = "done") =>
    /\ unloadCalled = Injected
    /\ \A k \in Kinds : \E o \in Injected : o[1] = k
    /\ \A o \in Injected : modPM[o] = inspected
    /\ \A a \in alloc : a.pm = inspected /\ a.owner \in unloadCalled

C17_Witness ==
  /\ ~midReset
  /\ spc = "done"
  /\ hpc = "done"
  /\ alloc # {}
  /\ warned # {}
  /\ inspected # 0
  /\ Cardinality(unloadCalled) = NumModules

\* the wake-up callbacks on the loop: those scheduled and the one running
TicksAlive == pendingTicks + (IF cur = "wakeup" THEN 1 ELSE 0)

\* C18: at most one wake-up tick is alive at any moment: while none runs at most
\* one is scheduled, and while one runs its successor is not yet scheduled.
C18_AtMostOneTick ==
  /\ TicksAlive <= 1
  /\ StartsWithWin(platform) /\ spc # "idle" => TicksAlive = 1

C18_Witness ==
  /\ StartsWithWin(platform)
  /\ cur = "none"
  /\ pendingTicks = 1
  /\ spc = "done"
  /\ hpc = "done"
  /\ bg = "done"

====
